---- MODULE Spec2Model ----
(***************************************************************************)
(* Medallion data lake: the incremental bronze -> silver cleaning stage,   *)
(* its processing ledger (.state/<domain>_processed.json) and the silver   *)
(* -> gold aggregation stage, as a state machine over the local store.     *)
(***************************************************************************)
EXTENDS Integers, Sequences, FiniteSets, TLC

(* ------------------------------------------------------------------------ *)
(* Bounds of the model                                                      *)
(* ------------------------------------------------------------------------ *)
MaxFiles == 2
MaxTime == 1
MaxRuns == 2

(* ------------------------------------------------------------------------ *)
(* Program constants                                                        *)
(* ------------------------------------------------------------------------ *)
DOMAINS == <<"sales", "customer_events", "inventory">>

DomainSet == {DOMAINS[i] : i \in 1..Len(DOMAINS)}

\* The seven gold tables, in the order silver_to_gold.run writes them, each
\* with the silver domain it is computed from.
GoldTables ==
  << [name |-> "daily_sales_summary",        domain |-> "sales"],
     [name |-> "category_sales_summary",     domain |-> "sales"],
     [name |-> "payment_method_summary",     domain |-> "sales"],
     [name |-> "customer_activity_summary",  domain |-> "customer_events"],
     [name |-> "device_usage_summary",       domain |-> "customer_events"],
     [name |-> "inventory_movement_summary", domain |-> "inventory"],
     [name |-> "inventory_net_position",     domain |-> "inventory"] >>

TableNames == {GoldTables[i].name : i \in 1..Len(GoldTables)}

VARIABLES
  now,          \* _utcnow(), in whole seconds (the resolution of the file names)
  bronze,       \* bronze[d]: the raw CSV files of domain d, in sorted path order
  stateFile,    \* stateFile[d]: .state/<d>_processed.json
  silver,       \* silver[d]: timestamp of the file name -> cleaned rows
  gold,         \* gold[t]: timestamp of the file name -> snapshot
  pc,           \* position of bronze_to_silver.run
  di,           \* index in DOMAINS of the domain the cleaning loop is at
  files,        \* run's local `files`
  cleaned,      \* run's local `cleaned`
  processed,    \* mark_bronze_files_processed's local `processed`
  gpc,          \* position of silver_to_gold.run
  gi,           \* index in GoldTables of the next snapshot to write
  gdf,          \* the three DataFrames silver_to_gold.run read
  other,        \* gpc, gi, gdf of a second silver_to_gold.run that is waiting
  args,         \* a call of one function on its own: what it is given
  ret,          \* and what it returned
  hist          \* history of the runs (what the claims are stated about)

progVars == <<now, bronze, stateFile, silver, gold>>
cleanVars == <<pc, di, files, cleaned, processed>>
goldVars == <<gpc, gi, gdf, other>>
callVars == <<args, ret>>
vars == <<now, bronze, stateFile, silver, gold, pc, di, files, cleaned,
          processed, gpc, gi, gdf, other, args, ret, hist>>

(* ------------------------------------------------------------------------ *)
(* Raw batches                                                              *)
(* ------------------------------------------------------------------------ *)
\* A raw row: its primary key and whether some other required column is null.
RawRow(k, nul) == [pk |-> k, missing |-> nul]

\* Primary keys are uuid4 values: no two files share one.
KeyOf(f, i) == 10 * f + i

\* What the f-th file of a domain may hold: an unreadable CSV; a good row, a
\* row with a null and a duplicate of the first row (the generators append a
\* duplicate of the first row); or only a row with a null.
Contents(f) ==
  { [parses |-> FALSE, rows |-> <<>>],
    [parses |-> TRUE,  rows |-> <<RawRow(KeyOf(f, 1), FALSE),
                                  RawRow(KeyOf(f, 2), TRUE),
                                  RawRow(KeyOf(f, 1), FALSE)>>],
    [parses |-> TRUE,  rows |-> <<RawRow(KeyOf(f, 2), TRUE)>>] }

\* str(path) of the f-th bronze file of domain d.
BronzePath(d, f) == <<"bronze", d, f>>

TotalFiles == Len(bronze["sales"]) + Len(bronze["customer_events"])
              + Len(bronze["inventory"])


(* ------------------------------------------------------------------------ *)
(* State tracking: .state/<domain>_processed.json                           *)
(* ------------------------------------------------------------------------ *)
\* The file's text is a sequence of JSON tokens: "[", one string per path, "]".
NoVal == <<>>
Tok(kind, v) == [tok |-> kind, val |-> v]

\* state_file.exists() is false.
MissingFile == [exists |-> FALSE, text |-> <<>>]

\* sorted(processed): ascending order of the path strings of one domain.
RECURSIVE SortedPaths(_)
SortedPaths(S) ==
  IF S = {} THEN <<>>
  ELSE LET m == CHOOSE x \in S : \A y \in S : x[3] <= y[3]
       IN  <<m>> \o SortedPaths(S \ {m})

\* json.dump(list): the complete text.
JsonDump(list) ==
  <<Tok("[", NoVal)>> \o [i \in 1..Len(list) |-> Tok("str", list[i])]
                      \o <<Tok("]", NoVal)>>

\* json.load(f): the list the text holds, or JSONDecodeError when the text is
\* not a complete array of strings (an empty or truncated file).
JsonLoad(text) ==
  IF /\ Len(text) >= 2
     /\ text[1].tok = "["
     /\ text[Len(text)].tok = "]"
     /\ \A i \in 2..(Len(text) - 1) : text[i].tok = "str"
  THEN [ok |-> TRUE, list |-> [i \in 1..(Len(text) - 2) |-> text[i + 1].val]]
  ELSE [ok |-> FALSE, list |-> <<>>]

\* _load_processed_state applied to the contents of a state file: ok = FALSE
\* when json.load raises, which _load_processed_state does not catch.
LoadState(file) ==
  IF file.exists
  THEN LET r == JsonLoad(file.text)
       IN  [ok |-> r.ok, set |-> {r.list[i] : i \in 1..Len(r.list)}]
  ELSE [ok |-> TRUE, set |-> {}]

LoadProcessedState(d) == LoadState(stateFile[d])

\* _save_processed_state after it returned: the file holds the whole dump.
SavedFile(set) == [exists |-> TRUE, text |-> JsonDump(SortedPaths(set))]

\* open(state_file, "w") truncates the file in place before anything is dumped.
TruncatedFile == [exists |-> TRUE, text |-> <<>>]

\* What the file may hold when the process dies inside the `with` block: any
\* proper prefix of the dump (nothing flushed, or part of it).
PartialFiles(set) ==
  LET full == JsonDump(SortedPaths(set))
  IN  {[exists |-> TRUE, text |-> SubSeq(full, 1, n)] : n \in 0..(Len(full) - 1)}

\* Mutant: every file in the directory when the ledger is updated is marked.
MarksDirectory(d, old, fs) ==
  old \cup {BronzePath(d, f) : f \in 1..Len(bronze[d])}

\* Mutant: the update is lost, the old set is saved again.
DropsFiles(d, old, fs) == old

\* processed.update(str(f) for f in files), for a set of file indexes.
MarkedSet(d, old, fs) == old \cup {BronzePath(d, f) : f \in fs}

\* Mutant: the filter keeps the files whose path is in the ledger.
KeepsProcessed(all, done, d) ==
  SelectSeq(all, LAMBDA f : BronzePath(d, f) \in done)

\* The all_files of get_unprocessed_bronze_files kept by its filter.
UnprocessedOf(all, done, d) ==
  SelectSeq(all, LAMBDA f : BronzePath(d, f) \notin done)

\* get_unprocessed_bronze_files(d) with `file` as the domain's state file, when
\* the file loads; files are numbered in sorted path order, so 1..Len is
\* sorted(bronze_dir.rglob("*.csv")).
GetUnprocessedIn(d, file) ==
  IF bronze[d] = <<>> THEN <<>>
  ELSE UnprocessedOf([f \in 1..Len(bronze[d]) |-> f], LoadState(file).set, d)

GetUnprocessedBronzeFiles(d) == GetUnprocessedIn(d, stateFile[d])

Range(s) == {s[i] : i \in 1..Len(s)}

(* ------------------------------------------------------------------------ *)
(* Cleaning: the shape shared by the three _process_* functions             *)
(* ------------------------------------------------------------------------ *)
\* pd.concat(dfs, ignore_index=True)
RECURSIVE Concat(_)
Concat(dfs) == IF dfs = <<>> THEN <<>> ELSE Head(dfs) \o Concat(Tail(dfs))

\* df.drop_duplicates(subset=[key]): the first row of each key, in input order.
DropDuplicates(rows) ==
  LET first == SelectSeq([i \in 1..Len(rows) |-> i],
                         LAMBDA i : \A j \in 1..(i - 1) : rows[j].pk # rows[i].pk)
  IN  [n \in 1..Len(first) |-> rows[first[n]]]

\* Steps 3-5 of a processor: every row kept, is_valid iff no error tag.
Validate(rows) ==
  [i \in 1..Len(rows) |-> [pk |-> rows[i].pk, is_valid |-> ~rows[i].missing]]

\* _PROCESSORS[domain](combined)
Process(rows) == Validate(DropDuplicates(rows))

\* The frames of the files that pd.read_csv could parse (the others are logged).
ParsedFrames(d, fs) ==
  LET ok == SelectSeq(fs, LAMBDA f : bronze[d][f].parses)
  IN  [i \in 1..Len(ok) |-> bronze[d][ok[i]].rows]

(* ------------------------------------------------------------------------ *)
(* Silver and gold stores                                                   *)
(* ------------------------------------------------------------------------ *)
\* sorted(...) of a set of numbers (timestamps of file names, file indexes).
RECURSIVE Sorted(_)
Sorted(S) ==
  IF S = {} THEN <<>>
  ELSE LET m == CHOOSE x \in S : \A y \in S : x <= y
       IN  <<m>> \o Sorted(S \ {m})

\* df.to_parquet(dest_file): the file named by the second `t` is (re)written.
WriteFile(store, t, data) == (t :> data) @@ store

\* read_from_silver(d): every parquet file of the domain, concatenated.
ReadFromSilver(d) ==
  LET ts == Sorted(DOMAIN silver[d])
  IN  Concat([i \in 1..Len(ts) |-> silver[d][ts[i]]])

\* Mutant: the frame unfiltered.
AllRows(df) == df

\* df[df["is_valid"] == True]
ValidRows(df) == SelectSeq(df, LAMBDA r : r.is_valid)

\* A grouped rollup of the valid rows: count and nunique of the key.
Rollup(valid, at) ==
  [row_count |-> Len(valid),
   nunique |-> Cardinality({valid[i].pk : i \in 1..Len(valid)}),
   generated_at |-> at]

(* ------------------------------------------------------------------------ *)
(* Initial state: an empty lake, no run in progress                         *)
(* ------------------------------------------------------------------------ *)
NoFiles == [d \in DomainSet |-> {}]
AllFalse == [d \in DomainSet |-> FALSE]
AllZero == [d \in DomainSet |-> 0]

HistInit ==
  [ contrib     |-> [d \in DomainSet |-> <<>>], \* per file: runs that wrote a partition from it
    wrote       |-> AllFalse,   \* this cleaning run wrote a partition for d
    began       |-> AllFalse,   \* this cleaning run opened d's state file for writing
    commits     |-> AllZero,    \* ledger commits of this cleaning run for d
    atStart     |-> [d \in DomainSet |-> MissingFile], \* state files when this run began
    seen        |-> AllZero,    \* number of raw files of d when this run listed d
    prevSeen    |-> AllZero,    \* the same, for the run before
    prevOk      |-> FALSE,      \* the run before completed
    noNew       |-> AllFalse,   \* d had no new raw file when this run listed it
    retry       |-> NoFiles,    \* files of the run that failed before its commit of d
    lost        |-> AllFalse,   \* a partition of d was written and its commit was lost
    preCommit   |-> NoFiles,    \* ledger set before the last commit of d began
    postCommit  |-> NoFiles,    \* ledger set the last commit of d was to save
    cleanStatus |-> "none",     \* none, running, ok, failed
    error       |-> "none",     \* what ended the last failed cleaning run
    failed      |-> FALSE,      \* some run has failed
    cleanParts  |-> {},         \* <<d, t>>: partitions the last cleaning run wrote
    goldStatus  |-> "none",
    goldParts   |-> {},         \* <<table, t>>: snapshots the last gold run wrote
    cleanRuns   |-> 0,
    goldRuns    |-> 0,
    written     |-> [d \in DomainSet |-> <<>>], \* every frame save_to_silver was given
    run         |-> 0,          \* which gold run gpc, gi and gdf belong to
    listed      |-> NoFiles,    \* files some get_unprocessed_bronze_files call returned
    late        |-> NoFiles,    \* files that arrived between a run's listing of d and
                                \* the end of its loop body for d
    snaps       |-> {} ]        \* every save_to_gold call: run, table, second, rows,
                                \* and the frames save_to_silver had been given by then

\* A silver_to_gold.run that has not started: its position and its locals.
NoRun ==
  [gpc |-> "idle", gi |-> 1, gdf |-> [d \in DomainSet |-> <<>>],
   run |-> 0, parts |-> {}, status |-> "none"]

Init ==
  /\ now = 0
  /\ bronze = [d \in DomainSet |-> <<>>]
  /\ stateFile = [d \in DomainSet |-> MissingFile]
  /\ silver = [d \in DomainSet |-> <<>>]
  /\ gold = [t \in TableNames |-> <<>>]
  /\ pc = "idle"
  /\ di = 1
  /\ files = <<>>
  /\ cleaned = <<>>
  /\ processed = {}
  /\ gpc = "idle"
  /\ gi = 1
  /\ gdf = [d \in DomainSet |-> <<>>]
  /\ other = NoRun
  /\ args = NoVal
  /\ ret = NoVal
  /\ hist = HistInit

(* ------------------------------------------------------------------------ *)
(* Environment: the clock and the generator DAG                             *)
(* ------------------------------------------------------------------------ *)
\* _utcnow(): the clock never runs backwards; what matters to a file name is
\* whether the second is still the one of the last reading.
UtcNow == {t \in {now, now + 1} : t <= MaxTime}

TotalRuns == hist.cleanRuns + hist.goldRuns

\* save_to_bronze(d, source_file): a new raw file, whose name sorts last. The
\* generator DAG runs whenever it likes; only get_unprocessed_bronze_files
\* looks at bronze, so an arrival later in a loop body, or during an
\* aggregation run, is the same as one before the next listing.
SaveToBronze ==
  /\ TotalFiles < MaxFiles
  /\ gpc = "idle"
  /\ pc \in {"idle", "list", "read"}
  /\ \E d \in DomainSet :
       \E c \in Contents(Len(bronze[d]) + 1) :
         /\ bronze' = [bronze EXCEPT ![d] = Append(@, c)]
         /\ hist' = [hist EXCEPT !.contrib[d] = Append(@, 0)]
  /\ UNCHANGED <<now, stateFile, silver, gold, cleanVars, goldVars, callVars>>

(* ------------------------------------------------------------------------ *)
(* bronze_to_silver.run                                                     *)
(* ------------------------------------------------------------------------ *)
CurDomain == DOMAINS[di]

\* Mutant: the ledger is committed right after cleaning, save_to_silver is
\* never reached.
StageCommitFirst(stage) ==
  CASE stage = "list" -> "read"
    [] stage = "read" -> "mark"
    [] stage = "save" -> "mark"
    [] stage = "mark" -> "dump"

\* The order of the steps of the loop body once there is something to clean:
\* read and clean, save_to_silver, mark_bronze_files_processed (load, then dump).
StageAfter(stage) ==
  CASE stage = "list" -> "read"
    [] stage = "read" -> "save"
    [] stage = "save" -> "mark"
    [] stage = "mark" -> "dump"

\* `continue`, or the end of the loop body: the next domain, or run returns.
NextDomain(h) ==
  /\ pc' = IF di < Len(DOMAINS) THEN "list" ELSE "idle"
  /\ di' = IF di < Len(DOMAINS) THEN di + 1 ELSE 1
  /\ files' = <<>>
  /\ cleaned' = <<>>
  /\ processed' = {}
  /\ hist' = IF di < Len(DOMAINS) THEN h ELSE [h EXCEPT !.cleanStatus = "ok"]

\* An exception leaves run: nothing is undone.
Raise(h, err) ==
  /\ pc' = "idle"
  /\ di' = 1
  /\ files' = <<>>
  /\ cleaned' = <<>>
  /\ processed' = {}
  /\ hist' = [h EXCEPT !.cleanStatus = "failed", !.error = err, !.failed = TRUE]

\* The pipeline DAG starts bronze_to_silver (max_active_runs = 1).
StartCleaning ==
  /\ pc = "idle"
  /\ gpc = "idle"
  /\ TotalRuns < MaxRuns
  /\ pc' = "list"
  /\ di' = 1
  /\ hist' = [hist EXCEPT !.wrote = AllFalse, !.commits = AllZero,
                          !.began = AllFalse,
                          !.prevSeen = hist.seen,
                          !.prevOk = (hist.cleanStatus = "ok"),
                          !.noNew = AllFalse, !.retry = NoFiles,
                          !.atStart = stateFile,
                          !.cleanStatus = "running", !.cleanParts = {},
                          !.cleanRuns = @ + 1]
  /\ UNCHANGED <<progVars, files, cleaned, processed, goldVars, callVars>>

\* files = get_unprocessed_bronze_files(domain); `continue` when it is empty.
ListFiles ==
  /\ pc = "list"
  /\ bronze[CurDomain] # <<>> => LoadProcessedState(CurDomain).ok
  /\ LET d == CurDomain
         fs == GetUnprocessedBronzeFiles(d)
         h == [hist EXCEPT !.seen[d] = Len(bronze[d]),
                           !.listed[d] = @ \cup Range(fs),
                           !.noNew[d] = hist.prevOk /\ Len(bronze[d]) = hist.prevSeen[d]]
     IN  IF fs = <<>>
         THEN NextDomain(h)
         ELSE /\ files' = fs
              /\ pc' = StageAfter("list")
              /\ hist' = h
              /\ UNCHANGED <<di, cleaned, processed>>
  /\ UNCHANGED <<progVars, goldVars, callVars>>

\* get_unprocessed_bronze_files: json.load raises on the state file, and
\* neither _load_processed_state nor run catches it.
ListRaises ==
  /\ pc = "list"
  /\ bronze[CurDomain] # <<>>
  /\ ~LoadProcessedState(CurDomain).ok
  /\ Raise(hist, "JSONDecodeError")
  /\ UNCHANGED <<progVars, goldVars, callVars>>

\* The read loop, pd.concat and the processor; `continue` when no file parsed.
ReadAndClean ==
  /\ pc = "read"
  /\ LET dfs == ParsedFrames(CurDomain, files)
     IN  IF dfs = <<>>
         THEN NextDomain(hist)
         ELSE /\ cleaned' = Process(Concat(dfs))
              /\ pc' = StageAfter("read")
              /\ UNCHANGED <<di, files, processed, hist>>
  /\ UNCHANGED <<progVars, goldVars, callVars>>

\* save_to_silver(domain, cleaned)
SaveToSilver ==
  /\ pc = "save"
  /\ \E t \in UtcNow :
     LET d == CurDomain
     IN  /\ now' = t
         /\ silver' = [silver EXCEPT ![d] = WriteFile(@, t, cleaned)]
         /\ hist' = [hist EXCEPT
                       !.wrote[d] = TRUE,
                       !.written[d] = Append(@, cleaned),
                       !.cleanParts = @ \cup {<<d, t>>},
                       !.contrib[d] = [f \in 1..Len(@) |->
                          IF f \in Range(files) /\ bronze[d][f].parses
                          THEN @[f] + 1 ELSE @[f]]]
  /\ pc' = StageAfter("save")
  /\ UNCHANGED <<bronze, stateFile, gold, di, files, cleaned, processed, goldVars, callVars>>

\* mark_bronze_files_processed(domain, files) up to open(state_file, "w").
MarkBronzeFilesProcessed ==
  /\ pc = "mark"
  /\ LET d == CurDomain
         r == LoadProcessedState(d)
         new == MarkedSet(d, r.set, Range(files))
     IN  IF r.ok
         THEN /\ processed' = new
              /\ stateFile' = [stateFile EXCEPT ![d] = TruncatedFile]
              /\ pc' = StageAfter("mark")
              /\ hist' = [hist EXCEPT !.began[d] = TRUE, !.preCommit[d] = r.set,
                                      !.postCommit[d] = new]
              /\ UNCHANGED <<di, files, cleaned>>
         ELSE /\ Raise([hist EXCEPT !.lost[d] = TRUE, !.retry[d] = Range(files)],
                       "JSONDecodeError")
              /\ UNCHANGED stateFile
  /\ UNCHANGED <<now, bronze, silver, gold, goldVars, callVars>>

\* json.dump(sorted(processed), f) and the close of the file.
SaveProcessedState ==
  /\ pc = "dump"
  /\ stateFile' = [stateFile EXCEPT ![CurDomain] = SavedFile(processed)]
  /\ NextDomain([hist EXCEPT !.commits[CurDomain] = @ + 1])
  /\ UNCHANGED <<now, bronze, silver, gold, goldVars, callVars>>

\* The run ends without finishing, an I/O call raises (OSError) or the process
\* is killed: before save_to_silver has written, between save_to_silver and
\* mark_bronze_files_processed, or inside _save_processed_state, where the
\* state file is left with what had been flushed.
CleaningFails ==
  /\ pc \in {"save", "mark", "dump"}
  /\ LET d == CurDomain
         h == [hist EXCEPT
                 !.retry[d] = IF pc \in {"save", "mark"}
                              THEN Range(files) ELSE {},
                 !.lost[d] = @ \/ pc \in {"mark", "dump"}]
     IN  /\ Raise(h, "OSError")
         /\ IF pc = "dump"
            THEN \E file \in PartialFiles(processed) :
                   stateFile' = [stateFile EXCEPT ![d] = file]
            ELSE UNCHANGED stateFile
  /\ UNCHANGED <<now, bronze, silver, gold, goldVars, callVars>>

(* ------------------------------------------------------------------------ *)
(* silver_to_gold.run                                                       *)
(* ------------------------------------------------------------------------ *)
\* The three read_from_silver calls (the DAG runs this task after cleaning).
StartGold ==
  /\ gpc = "idle"
  /\ pc = "idle"
  /\ TotalRuns < MaxRuns
  /\ gdf' = [d \in DomainSet |-> ReadFromSilver(d)]
  /\ gpc' = "build"
  /\ gi' = 1
  /\ hist' = [hist EXCEPT !.goldStatus = "running", !.goldParts = {},
                          !.goldRuns = @ + 1, !.run = hist.goldRuns + 1]
  /\ UNCHANGED <<progVars, cleanVars, other, callVars>>

\* The end of one builder step: the next table, or run returns.
NextTable(h) ==
  /\ gpc' = IF gi < Len(GoldTables) THEN "build" ELSE "idle"
  /\ gi' = IF gi < Len(GoldTables) THEN gi + 1 ELSE 1
  /\ gdf' = IF gi < Len(GoldTables) THEN gdf ELSE [d \in DomainSet |-> <<>>]
  /\ hist' = IF gi < Len(GoldTables) THEN h ELSE [h EXCEPT !.goldStatus = "ok"]

\* One rollup of a _build_* function: skipped when the frame is empty or has
\* no valid row, else grouped and written with save_to_gold.
BuildTable ==
  /\ gpc = "build"
  /\ LET t == GoldTables[gi]
         valid == ValidRows(gdf[t.domain])
     IN  IF gdf[t.domain] = <<>> \/ valid = <<>>
         THEN /\ NextTable(hist)
              /\ UNCHANGED <<now, gold>>
         ELSE \E at \in UtcNow :
                /\ now' = at
                /\ gold' = [gold EXCEPT ![t.name] = WriteFile(@, at, Rollup(valid, at))]
                /\ NextTable([hist EXCEPT
                               !.goldParts = @ \cup {<<t.name, at>>},
                               !.snaps = @ \cup {[run |-> hist.run, table |-> t.name,
                                                  at |-> at, rows |-> Rollup(valid, at),
                                                  partitions |-> hist.written[t.domain]]}])
  /\ UNCHANGED <<bronze, stateFile, silver, cleanVars, other, callVars>>

\* An exception leaves silver_to_gold.run between two snapshots.
GoldFails ==
  /\ gpc = "build"
  /\ gpc' = "idle"
  /\ gi' = 1
  /\ gdf' = [d \in DomainSet |-> <<>>]
  /\ hist' = [hist EXCEPT !.goldStatus = "failed", !.failed = TRUE]
  /\ UNCHANGED <<progVars, cleanVars, other, callVars>>

\* The generator DAG and the cleaning stage alone.
NextCleaning ==
  \/ SaveToBronze
  \/ StartCleaning
  \/ ListFiles
  \/ ListRaises
  \/ ReadAndClean
  \/ SaveToSilver
  \/ MarkBronzeFilesProcessed
  \/ SaveProcessedState
  \/ CleaningFails

SpecCleaning == Init /\ [][NextCleaning]_vars

\* The whole lake: generators, cleaning and aggregation.
Next ==
  \/ NextCleaning
  \/ StartGold
  \/ BuildTable
  \/ GoldFails

Spec == Init /\ [][Next]_vars

(* ------------------------------------------------------------------------ *)
(* The ledger functions on their own                                        *)
(* ------------------------------------------------------------------------ *)
\* A caller marks any set of files of any domain (listed or not, there or
\* not): mark_bronze_files_processed(d, S), from its load to the end of
\* _save_processed_state.
MarkAnyFiles ==
  /\ pc \in {"idle", "marked"}
  /\ \E i \in 1..Len(DOMAINS) :
       \E S \in SUBSET (1..(Len(bronze[DOMAINS[i]]) + 1)) :
         LET d == DOMAINS[i]
             new == MarkedSet(d, LoadProcessedState(d).set, S)
         IN  /\ LoadProcessedState(d).ok
             /\ stateFile' = [stateFile EXCEPT ![d] = SavedFile(new)]
             /\ di' = i
             /\ files' = Sorted(S)
             /\ pc' = "marked"
  /\ UNCHANGED <<now, bronze, silver, gold, cleaned, processed, goldVars, callVars, hist>>

\* The caller goes on; raw files arrive.
MarkReturns ==
  /\ pc = "marked"
  /\ pc' = "idle"
  /\ di' = 1
  /\ files' = <<>>
  /\ UNCHANGED <<progVars, cleaned, processed, goldVars, callVars, hist>>

NextLedger ==
  \/ SaveToBronze
  \/ MarkAnyFiles
  \/ MarkReturns

SpecLedger == Init /\ [][NextLedger]_vars

(* ------------------------------------------------------------------------ *)
(* Properties                                                               *)
(* ------------------------------------------------------------------------ *)
Readable(d) == LoadProcessedState(d).ok

\* The committed set of a domain, as a later load sees it.
Ledger(d) == LoadProcessedState(d).set

InLedger(d, f) == BronzePath(d, f) \in Ledger(d)

FilesOf(d) == 1..Len(bronze[d])

NoFailureSoFar == ~hist.failed

\* C1: as long as no run has failed, every raw file was part of the parsed
\* input of at most one run that wrote a cleaned partition, and of exactly one
\* once it is in the ledger.
C1_ExactlyOnce ==
  NoFailureSoFar =>
    \A d \in DomainSet : \A f \in FilesOf(d) :
      /\ hist.contrib[d][f] <= 1
      /\ (Readable(d) /\ InLedger(d, f)) => hist.contrib[d][f] = 1

\* C2: a raw file that pd.read_csv cannot parse is never in the ledger, so
\* that get_unprocessed_bronze_files returns it again on the next run.
C2_UnparsedNotMarked ==
  \A d \in DomainSet : \A f \in FilesOf(d) :
    (Readable(d) /\ ~bronze[d][f].parses) => ~InLedger(d, f)

\* C3: in a cleaning run each domain's ledger is committed at most once, and
\* the commit begins only after the domain's partition was written; until it
\* begins the domain's state file is the one the run found, and when the run
\* fails before it the files the run had listed are unprocessed again for the
\* next run.
C3_CommitAfterSave ==
  \A d \in DomainSet :
    /\ hist.commits[d] <= 1
    /\ hist.began[d] => hist.wrote[d]
    /\ hist.commits[d] = 1 => hist.began[d]
    /\ (hist.cleanStatus # "none" /\ ~hist.began[d]) => stateFile[d] = hist.atStart[d]
    /\ (pc \in {"read", "save", "mark"} /\ d = CurDomain)
         => Range(files) \subseteq Range(GetUnprocessedBronzeFiles(d))
    /\ (pc = "idle" /\ hist.retry[d] # {})
         => /\ Readable(d)
            /\ hist.retry[d] \subseteq Range(GetUnprocessedBronzeFiles(d))

\* C3 witness: a run committed one domain after writing its partition and then
\* failed on another domain between save_to_silver and the commit.
C3_Witness ==
  /\ pc = "idle"
  /\ \E d1, d2 \in DomainSet :
       /\ hist.commits[d1] = 1 /\ hist.wrote[d1]
       /\ hist.commits[d2] = 0 /\ hist.wrote[d2] /\ hist.retry[d2] # {}

\* C4: right after mark_bronze_files_processed(d, S) returned, for any domain
\* d and any set S of files, get_unprocessed_bronze_files(d) returns no
\* element of S.
C4_MarkedNotUnprocessed ==
  pc = "marked" =>
    /\ Readable(CurDomain)
    /\ Range(GetUnprocessedBronzeFiles(CurDomain)) \cap Range(files) = {}

\* C4 witness: some of the domain's raw files were marked, one of them not in
\* the ledger before, and another raw file of the domain is still unprocessed.
C4_Witness ==
  /\ pc = "marked"
  /\ \E f \in Range(files) : f \in FilesOf(CurDomain)
  /\ GetUnprocessedBronzeFiles(CurDomain) # <<>>

\* C5: when the run before completed and a domain has no raw file that the
\* run before did not list, the run writes no partition for the domain and
\* does not commit its ledger.
C5_SecondRunWritesNothing ==
  \A d \in DomainSet :
    hist.noNew[d] => (~hist.wrote[d] /\ hist.commits[d] = 0)

\* C5 witness: the second of two completed runs, over a domain whose files the
\* first run cleaned and committed.
C5_Witness ==
  /\ pc = "idle"
  /\ hist.cleanStatus = "ok"
  /\ \E d \in DomainSet :
       /\ hist.noNew[d]
       /\ bronze[d] # <<>>
       /\ Ledger(d) # {}

\* C6: between cleaning runs, as long as no run has failed, a raw file is in
\* the ledger iff its rows were part of the input of a written partition.
C6_LedgerIffMerged ==
  (pc = "idle" /\ NoFailureSoFar) =>
    \A d \in DomainSet : \A f \in FilesOf(d) :
      InLedger(d, f) <=> hist.contrib[d][f] >= 1

\* No primary key occurs twice in a frame.
NoDuplicateKey(df) ==
  \A i, j \in 1..Len(df) : df[i].pk = df[j].pk => i = j

\* C7: after a partition was written and its commit lost, whatever the next
\* runs reprocess, the valid rows that read_from_silver hands to the rollups
\* hold each primary key at most once (counts and sums are those of one
\* cleaning).
C7_ReprocessingDuplicateSafe ==
  \A d \in DomainSet :
    hist.lost[d] => NoDuplicateKey(ValidRows(ReadFromSilver(d)))

\* C8: no cleaning run ends with the JSONDecodeError of an unreadable ledger.
C8_UnreadableLedgerTolerated ==
  hist.error # "JSONDecodeError"

\* C9: between runs, every state file loads, and as the set from before the
\* last commit of the domain or as the set that commit was to save.
C9_AtomicReplace ==
  pc = "idle" =>
    \A d \in DomainSet :
      /\ Readable(d)
      /\ Ledger(d) \in {hist.preCommit[d], hist.postCommit[d]}

\* C10: a failed cleaning run has left no cleaned partition, and a failed
\* aggregation run no gold snapshot.
C10_FailedRunLeavesNothing ==
  /\ (hist.cleanStatus = "failed" =>
        \A p \in hist.cleanParts : p[2] \notin DOMAIN silver[p[1]])
  /\ (hist.goldStatus = "failed" =>
        \A p \in hist.goldParts : p[2] \notin DOMAIN gold[p[1]])

\* C12: every save_to_silver call adds one partition and replaces none, so
\* read_from_silver(d) returns every frame ever written for d, concatenated
\* in the order they were written (stated for the runs that never failed,
\* where no frame is written twice).
C12_EveryPartitionKept ==
  NoFailureSoFar =>
    \A d \in DomainSet :
      /\ Cardinality(DOMAIN silver[d]) = Len(hist.written[d])
      /\ ReadFromSilver(d) = Concat(hist.written[d])

(* ------------------------------------------------------------------------ *)
(* A lake that has been used: cleaning has run once, at second 0            *)
(* ------------------------------------------------------------------------ *)
\* The raw files one completed cleaning run left a partition of: for each
\* domain none or one file that parsed.
Seeds ==
  {s \in [DomainSet -> {NoVal} \cup {c \in Contents(1) : c.parses}] :
     Cardinality({d \in DomainSet : s[d] # NoVal}) <= MaxFiles}

\* The lake after bronze_to_silver.run returned from cleaning the files of
\* `seed`: the partition of each file, and its path in the ledger.
InitSeeded ==
  \E seed \in Seeds :
    /\ now = 0
    /\ bronze = [d \in DomainSet |-> IF seed[d] = NoVal THEN <<>> ELSE <<seed[d]>>]
    /\ stateFile = [d \in DomainSet |->
                      IF seed[d] = NoVal THEN MissingFile
                      ELSE SavedFile(MarkedSet(d, {}, {1}))]
    /\ silver = [d \in DomainSet |->
                   IF seed[d] = NoVal THEN <<>>
                   ELSE WriteFile(<<>>, 0, Process(seed[d].rows))]
    /\ gold = [t \in TableNames |-> <<>>]
    /\ pc = "idle"
    /\ di = 1
    /\ files = <<>>
    /\ cleaned = <<>>
    /\ processed = {}
    /\ gpc = "idle"
    /\ gi = 1
    /\ gdf = [d \in DomainSet |-> <<>>]
    /\ other = NoRun
    /\ args = NoVal
    /\ ret = NoVal
    /\ hist = [HistInit EXCEPT
                 !.contrib = [d \in DomainSet |->
                                IF seed[d] = NoVal THEN <<>> ELSE <<1>>],
                 !.written = [d \in DomainSet |->
                                IF seed[d] = NoVal THEN <<>>
                                ELSE <<Process(seed[d].rows)>>],
                 !.listed = [d \in DomainSet |->
                               IF seed[d] = NoVal THEN {} ELSE {1}]]

\* Generators, cleaning and aggregation on the lake in use, under the DAG's
\* discipline (one run at a time).
SpecSeeded == InitSeeded /\ [][Next]_vars

\* C11: as long as no run has failed, any two snapshots of a table that
\* different aggregation runs wrote are two files, and every snapshot ever
\* written is still there with the rows its run wrote.
C11_SnapshotNeverOverwritten ==
  NoFailureSoFar =>
    \A s \in hist.snaps :
      /\ s.at \in DOMAIN gold[s.table]
      /\ gold[s.table][s.at] = s.rows
      /\ \A o \in hist.snaps : (o.table = s.table /\ o.run # s.run) => o.at # s.at

(* ------------------------------------------------------------------------ *)
(* Two aggregation runs at once                                             *)
(* ------------------------------------------------------------------------ *)
\* Two calls of silver_to_gold.run made without the DAG's max_active_runs = 1
\* are two processes: gpc, gi and gdf are the locals of the one that takes
\* the next step, `other` holds those of the one that waits. The scheduler
\* lets the other one run.
Switch ==
  /\ pc = "idle"
  /\ gpc = "build" \/ other.gpc = "build"
  /\ gpc' = other.gpc
  /\ gi' = other.gi
  /\ gdf' = other.gdf
  /\ other' = [gpc |-> gpc, gi |-> gi, gdf |-> gdf, run |-> hist.run,
               parts |-> hist.goldParts, status |-> hist.goldStatus]
  /\ hist' = [hist EXCEPT !.run = other.run, !.goldParts = other.parts,
                          !.goldStatus = other.status]
  /\ UNCHANGED <<progVars, cleanVars, callVars>>

NextConcurrent ==
  \/ StartGold
  \/ BuildTable
  \/ GoldFails
  \/ Switch

SpecConcurrent == InitSeeded /\ [][NextConcurrent]_vars

\* The silver domain a gold table is computed from.
TableDomain(name) ==
  GoldTables[CHOOSE i \in 1..Len(GoldTables) : GoldTables[i].name = name].domain

\* C13: while two aggregation runs are in progress together, every snapshot
\* written so far is a file of its own run only, still holds the rows that
\* run wrote, and those are the rollup of what the run read.
C13_ConcurrentRunsKeepSnapshots ==
  (gpc = "build" /\ other.gpc = "build") =>
    \A s \in hist.snaps :
      /\ s.at \in DOMAIN gold[s.table]
      /\ gold[s.table][s.at] = s.rows
      /\ s.rows = Rollup(ValidRows(ReadFromSilver(TableDomain(s.table))), s.at)
      /\ {o.run : o \in {x \in hist.snaps : x.table = s.table /\ x.at = s.at}}
           = {s.run}

(* ------------------------------------------------------------------------ *)
(* The processors of bronze_to_silver.py, cell by cell                      *)
(* ------------------------------------------------------------------------ *)
\* A cell of a DataFrame: NaN (None, NaT), a number, a text, the ISO text of
\* the instant n, or the parsed instant. Amounts are in cents, as the
\* two-decimal values of the CSV files.
NaN == [nan |-> TRUE]
Num(n) == [num |-> n]
Str(s) == [str |-> s]
Iso(n) == [iso |-> n]
Timestamp(n) == [utc |-> n]

VALID_EVENT_TYPES == {"login", "browse", "add_to_cart", "checkout", "logout"}
VALID_MOVEMENT_TYPES == {"inbound", "outbound", "adjustment"}

\* required_cols of the three processors.
SalesRequired ==
  <<"sale_id", "timestamp", "customer_id", "product_id", "quantity",
    "unit_price", "total_amount">>
EventsRequired ==
  <<"event_id", "timestamp", "customer_id", "session_id", "event_type">>
InventoryRequired ==
  <<"movement_id", "timestamp", "product_id", "warehouse_id", "movement_type",
    "quantity">>

\* pd.concat(dfs, ignore_index=True): the rows in order, indexed 0, 1, 2, ...
PdConcat(frames) ==
  LET all == Concat(frames)
  IN  [i \in 1..Len(all) |-> [index |-> i - 1] @@ all[i]]

\* pd.to_datetime(cell, utc=True, errors="coerce"): NaT for what is no date.
ToDatetime(cell) ==
  IF DOMAIN cell = {"iso"} THEN Timestamp(cell.iso) ELSE NaN

\* df["timestamp"] = pd.to_datetime(df["timestamp"], ...)
ParseTimestamp(df) ==
  [i \in 1..Len(df) |-> [df[i] EXCEPT !.timestamp = ToDatetime(@)]]

\* pd.to_numeric(cell, errors="coerce")
ToNumeric(cell) ==
  IF DOMAIN cell = {"num"} THEN cell ELSE NaN

\* Mutant: keep="last".
KeepLast(df, key) ==
  SelectSeq(df, LAMBDA r :
    \A j \in 1..Len(df) : df[j].index > r.index => df[j][key] # r[key])

\* df.drop_duplicates(subset=[key]): the first row of each value of the key
\* (NaN is one value), with the index it had.
DropDuplicatesBy(df, key) ==
  SelectSeq(df, LAMBDA r :
    \A j \in 1..Len(df) : df[j].index < r.index => df[j][key] # r[key])

\* Mutant: validation stops at the first null column.
FirstNullOnly(row, required_cols) ==
  LET missing == SelectSeq(required_cols, LAMBDA c : row[c] = NaN)
  IN  IF missing = <<>> THEN <<>> ELSE <<"NULL:" \o missing[1]>>

\* for col in required_cols: errors[nulls[col]] += f"NULL:{col}; " -- the
\* tags a row gets, in the order they are appended.
NullErrors(row, required_cols) ==
  LET missing == SelectSeq(required_cols, LAMBDA c : row[c] = NaN)
  IN  [i \in 1..Len(missing) |-> "NULL:" \o missing[i]]

\* The 0.01 of `> 0.01`, in cents.
Tolerance == 1

Abs(x) == IF x < 0 THEN 0 - x ELSE x

\* computable: quantity and unit_price are both there.
Computable(row) == row.quantity # NaN /\ row.unit_price # NaN

\* (quantity * unit_price).round(2): a whole number of cents for a count and
\* a two-decimal price.
Expected(row) == Num(row.quantity.num * row.unit_price.num)

\* (total_amount - expected).abs() > 0.01 on binary floating point numbers.
\* The exact difference decides, except when it is exactly one cent: then
\* the representation errors of the operands decide (30.01 - 30.0 > 0.01 is
\* True, 10.01 - 10.0 > 0.01 is False). `above` holds the index of the rows
\* where such a difference compares greater. NaN compares False.
Mismatch(row, above) ==
  /\ row.total_amount # NaN
  /\ LET diff == Abs(row.total_amount.num - Expected(row).num)
     IN  diff > Tolerance \/ (diff = Tolerance /\ row.index \in above)

\* df.loc[computable & mismatch, "total_amount"] = expected[mismatch]
FixTotalAmount(row, above) ==
  IF Computable(row) /\ Mismatch(row, above)
  THEN [row EXCEPT !.total_amount = Expected(row)]
  ELSE row

\* Mutant: every row is flagged valid.
FlagsAllValid(row, errors) ==
  [is_valid |-> TRUE, validation_errors |-> errors, processed_at |-> now]
    @@ row

\* Step "Finalise": errors is the text of the tags, each followed by "; ";
\* after strip() it is empty exactly when there is no tag.
Finalise(row, errors) ==
  [is_valid |-> errors = <<>>, validation_errors |-> errors,
   processed_at |-> now] @@ row

\* errors[invalid_enum] += "INVALID_..._TYPE; ": the value is there and is
\* not one of the allowed ones.
EnumErrors(cell, allowed, tag) ==
  IF cell # NaN /\ ~(DOMAIN cell = {"str"} /\ cell.str \in allowed)
  THEN <<tag>> ELSE <<>>

\* errors[bad_qty] += "NON_POSITIVE_QUANTITY; "
QuantityErrors(cell) ==
  IF cell # NaN /\ ToNumeric(cell) # NaN /\ ToNumeric(cell).num <= 0
  THEN <<"NON_POSITIVE_QUANTITY">> ELSE <<>>

\* _process_sales(df)
ProcessSales(df, above) ==
  LET dedup == DropDuplicatesBy(ParseTimestamp(df), "sale_id")
  IN  [i \in 1..Len(dedup) |->
         Finalise(FixTotalAmount(dedup[i], above),
                  NullErrors(dedup[i], SalesRequired))]

\* _process_customer_events(df)
ProcessCustomerEvents(df) ==
  LET dedup == DropDuplicatesBy(ParseTimestamp(df), "event_id")
  IN  [i \in 1..Len(dedup) |->
         Finalise(dedup[i],
                  NullErrors(dedup[i], EventsRequired)
                    \o EnumErrors(dedup[i].event_type, VALID_EVENT_TYPES,
                                  "INVALID_EVENT_TYPE"))]

\* _process_inventory(df)
ProcessInventory(df) ==
  LET dedup == DropDuplicatesBy(ParseTimestamp(df), "movement_id")
  IN  [i \in 1..Len(dedup) |->
         Finalise(dedup[i],
                  NullErrors(dedup[i], InventoryRequired)
                    \o EnumErrors(dedup[i].movement_type, VALID_MOVEMENT_TYPES,
                                  "INVALID_MOVEMENT_TYPE")
                    \o QuantityErrors(dedup[i].quantity))]

(* ------------------------------------------------------------------------ *)
(* The processors called on their own                                       *)
(* ------------------------------------------------------------------------ *)
\* The longest concatenated input of a call.
MaxRows == 3

\* Primary keys of raw rows: none, or one of two values.
Keys == {NaN, Str("k1"), Str("k2")}

\* A raw sales row: 3 pieces at 10.00, with the total as given.
SalesRow(k, total) ==
  [sale_id |-> k, timestamp |-> Iso(1), customer_id |-> Str("CUST-1"),
   product_id |-> Str("PROD-1"), quantity |-> Num(3), unit_price |-> Num(1000),
   total_amount |-> Num(total)]

EventRow(k, type) ==
  [event_id |-> k, timestamp |-> Iso(1), customer_id |-> Str("CUST-1"),
   session_id |-> Str("SESS-1"), event_type |-> Str(type)]

InventoryRow(k, type, qty) ==
  [movement_id |-> k, timestamp |-> Iso(1), product_id |-> Str("PROD-1"),
   warehouse_id |-> Str("WH-1"), movement_type |-> Str(type), quantity |-> qty]

\* The row with the cells of the columns `cols` empty.
Without(row, cols) ==
  [c \in DOMAIN row |-> IF c \in cols THEN NaN ELSE row[c]]

\* The row with a timestamp text that is no date.
BadDate(row) == [row EXCEPT !.timestamp = Str("not a date")]

\* Every way a row can lack required cells, with a date or with a text that
\* is none.
Lacking(rows, required_cols) ==
  UNION {{Without(r, M), Without(BadDate(r), M)} :
           r \in rows, M \in SUBSET Range(required_cols)}

SalesRows == {SalesRow(k, total) : k \in Keys, total \in {3000, 3001, 3500}}
EventRows == {EventRow(k, type) : k \in Keys, type \in {"login", "UNKNOWN"}}
InventoryRows ==
  {InventoryRow(k, "inbound", Num(5)) : k \in Keys}
    \cup {InventoryRow(k, "TRANSFER", Num(5)) : k \in Keys}
    \cup {InventoryRow(k, "outbound", Num(0)) : k \in Keys}

SalesLacking ==
  Lacking({SalesRow(Str("k1"), total) : total \in {2999, 3000, 3001, 3002, 3500}},
          SalesRequired)
EventsLacking ==
  Lacking({EventRow(Str("k1"), type) : type \in {"login", "UNKNOWN"}},
          EventsRequired)
InventoryLacking ==
  Lacking({InventoryRow(Str("k1"), "inbound", Num(5)),
           InventoryRow(Str("k1"), "TRANSFER", Num(0 - 2)),
           InventoryRow(Str("k1"), "adjustment", Str("five"))},
          InventoryRequired)

\* The frames of the files of one listing: `rows` cut after the positions
\* `cuts`, one frame per file.
SplitAt(rows, cuts) ==
  LET ends == Sorted(cuts \cup {Len(rows)})
  IN  [i \in 1..Len(ends) |->
         SubSeq(rows, IF i = 1 THEN 1 ELSE ends[i - 1] + 1, ends[i])]

\* A call of a processor: up to MaxRows rows of `rows` read from one or more
\* files, or one row of `lacking`.
IsCallOf(call, fn, rows, lacking) ==
  \/ \E n \in 1..MaxRows : \E df \in [1..n -> rows] :
       \E cuts \in SUBSET (1..(n - 1)) :
         call = [fn |-> fn, dfs |-> SplitAt(df, cuts)]
  \/ \E r \in lacking : call = [fn |-> fn, dfs |-> <<<<r>>>>]

IsCall(call) ==
  \/ IsCallOf(call, "_process_sales", SalesRows, SalesLacking)
  \/ IsCallOf(call, "_process_customer_events", EventRows, EventsLacking)
  \/ IsCallOf(call, "_process_inventory", InventoryRows, InventoryLacking)

\* The lake is empty and idle; one processor is about to be called.
InitCalls ==
  /\ now = 0
  /\ bronze = [d \in DomainSet |-> <<>>]
  /\ stateFile = [d \in DomainSet |-> MissingFile]
  /\ silver = [d \in DomainSet |-> <<>>]
  /\ gold = [t \in TableNames |-> <<>>]
  /\ pc = "idle"
  /\ di = 1
  /\ files = <<>>
  /\ cleaned = <<>>
  /\ processed = {}
  /\ gpc = "idle"
  /\ gi = 1
  /\ gdf = [d \in DomainSet |-> <<>>]
  /\ other = NoRun
  /\ IsCall(args)
  /\ ret = NoVal
  /\ hist = HistInit

\* combined = pd.concat(dfs, ignore_index=True)
Combined == PdConcat(args.dfs)

\* The rows whose total is exactly one cent off quantity * unit_price.
OneCentOff(df) ==
  {df[i].index : i \in {j \in 1..Len(df) :
      /\ Computable(df[j])
      /\ df[j].total_amount # NaN
      /\ Abs(df[j].total_amount.num - Expected(df[j]).num) = Tolerance}}

\* cleaned = _process_sales(combined)
CallProcessSales ==
  /\ args # NoVal
  /\ ret = NoVal
  /\ args.fn = "_process_sales"
  /\ \E above \in SUBSET OneCentOff(Combined) :
       ret' = ProcessSales(Combined, above)
  /\ UNCHANGED <<progVars, cleanVars, goldVars, args, hist>>

\* cleaned = _process_customer_events(combined)
CallProcessCustomerEvents ==
  /\ args # NoVal
  /\ ret = NoVal
  /\ args.fn = "_process_customer_events"
  /\ ret' = ProcessCustomerEvents(Combined)
  /\ UNCHANGED <<progVars, cleanVars, goldVars, args, hist>>

\* cleaned = _process_inventory(combined)
CallProcessInventory ==
  /\ args # NoVal
  /\ ret = NoVal
  /\ args.fn = "_process_inventory"
  /\ ret' = ProcessInventory(Combined)
  /\ UNCHANGED <<progVars, cleanVars, goldVars, args, hist>>

NextCalls ==
  \/ CallProcessSales
  \/ CallProcessCustomerEvents
  \/ CallProcessInventory

SpecCalls == InitCalls /\ [][NextCalls]_vars

(* ------------------------------------------------------------------------ *)
(* Properties of the processors                                             *)
(* ------------------------------------------------------------------------ *)
\* subset=[...] of drop_duplicates, and required_cols, of the processor called.
KeyColumn(fn) ==
  CASE fn = "_process_sales" -> "sale_id"
    [] fn = "_process_customer_events" -> "event_id"
    [] fn = "_process_inventory" -> "movement_id"

RequiredCols(fn) ==
  CASE fn = "_process_sales" -> SalesRequired
    [] fn = "_process_customer_events" -> EventsRequired
    [] fn = "_process_inventory" -> InventoryRequired

\* A processor was called and has returned.
Returned == args # NoVal /\ ret # NoVal

\* The input row that has the index of the output row.
InputOf(out) == Combined[out.index + 1]

\* The output row is the input row, up to the two cells a processor rewrites.
SameRecord(out, in) ==
  \A c \in DOMAIN in \ {"timestamp", "total_amount"} : out[c] = in[c]

\* C14: the output of a processor has exactly one row for each value of the
\* primary key in its concatenated input (the empty key is one value), that
\* row is the first input row with the value, and the rows keep their order.
C14_FirstOccurrencePerKey ==
  Returned =>
    LET key == KeyColumn(args.fn)
        keysIn == {Combined[i][key] : i \in 1..Len(Combined)}
    IN  /\ \A k \in keysIn :
             Cardinality({j \in 1..Len(ret) : ret[j][key] = k}) = 1
        /\ \A j \in 1..Len(ret) :
             /\ ret[j][key] \in keysIn
             /\ SameRecord(ret[j], InputOf(ret[j]))
             /\ \A i \in 1..Len(Combined) :
                  Combined[i][key] = ret[j][key] => ret[j].index <= Combined[i].index
             /\ \A k \in 1..(j - 1) : ret[k].index < ret[j].index

\* Two rows with the same sale_id and different totals arrive in two files.
C14_Witness ==
  /\ Returned
  /\ args.fn = "_process_sales"
  /\ Len(args.dfs) > 1
  /\ \E i, j \in 1..Len(Combined) :
       /\ i <= Len(args.dfs[1])
       /\ j > Len(args.dfs[1])
       /\ Combined[i].sale_id = Combined[j].sale_id
       /\ Combined[i].total_amount # Combined[j].total_amount
       /\ \E o \in 1..Len(ret) : ret[o].index = i - 1

\* The tags "NULL:<col>" of the required columns whose cell is empty in the
\* row as it was read, in the order of required_cols.
MissingTags(in, required_cols) ==
  LET missing == SelectSeq(required_cols, LAMBDA c : in[c] = NaN)
  IN  [i \in 1..Len(missing) |-> "NULL:" \o missing[i]]

\* C15: a row that lacks required cells carries in validation_errors the tag
\* of each of them, once, in the order of required_cols, whatever else is
\* tagged, and is flagged invalid.
C15_EveryMissingFieldTagged ==
  Returned =>
    \A j \in 1..Len(ret) :
      LET tags == MissingTags(InputOf(ret[j]), RequiredCols(args.fn))
      IN  tags # <<>> =>
            /\ SelectSeq(ret[j].validation_errors, LAMBDA e : e \in Range(tags)) = tags
            /\ ret[j].is_valid = FALSE

\* A row lacking its key and at least two more, but not all, required cells.
C15_Witness ==
  /\ Returned
  /\ \E j \in 1..Len(ret) :
       LET tags == MissingTags(InputOf(ret[j]), RequiredCols(args.fn))
       IN  /\ Len(tags) >= 3
           /\ InputOf(ret[j])[KeyColumn(args.fn)] = NaN
           /\ Len(tags) < Len(RequiredCols(args.fn))
           /\ ret[j].validation_errors = tags

\* C16: a sales row with quantity, unit_price and total_amount present comes
\* out with total_amount = quantity * unit_price when the total was more than
\* 0.01 off, and then no tag names total_amount; it comes out with its own
\* total when that was at most 0.01 off.
C16_TotalRepairedBeyondTolerance ==
  (Returned /\ args.fn = "_process_sales") =>
    \A j \in 1..Len(ret) :
      LET in == InputOf(ret[j])
          diff == Abs(in.total_amount.num - in.quantity.num * in.unit_price.num)
      IN  (in.quantity # NaN /\ in.unit_price # NaN /\ in.total_amount # NaN) =>
            /\ diff > Tolerance =>
                 /\ ret[j].total_amount = Num(in.quantity.num * in.unit_price.num)
                 /\ "NULL:total_amount" \notin Range(ret[j].validation_errors)
            /\ diff <= Tolerance => ret[j].total_amount = in.total_amount

\* C20: in the output of a processor is_valid is true exactly for the rows
\* with no tag, and every input row that is the first with its key value,
\* the empty key and rows lacking other required cells included, is in the
\* output, flagged one way or the other.
C20_FlaggedNeverDropped ==
  Returned =>
    LET key == KeyColumn(args.fn)
    IN  /\ \A j \in 1..Len(ret) :
             ret[j].is_valid = (ret[j].validation_errors = <<>>)
        /\ \A i \in 1..Len(Combined) :
             (\A h \in 1..(i - 1) : Combined[h][key] # Combined[i][key]) =>
               \E j \in 1..Len(ret) :
                 /\ ret[j].index = Combined[i].index
                 /\ SameRecord(ret[j], Combined[i])
                 /\ ret[j].is_valid \in BOOLEAN

\* A row without key and an invalid row with a key are both in the output,
\* next to a valid one.
C20_Witness ==
  /\ Returned
  /\ Len(ret) = 3
  /\ \E j \in 1..Len(ret) : ret[j][KeyColumn(args.fn)] = NaN /\ ~ret[j].is_valid
  /\ \E j \in 1..Len(ret) : ret[j][KeyColumn(args.fn)] # NaN /\ ~ret[j].is_valid
  /\ \E j \in 1..Len(ret) : ret[j].is_valid

(* ------------------------------------------------------------------------ *)
(* _build_inventory_summary, cell by cell                                   *)
(* ------------------------------------------------------------------------ *)
SecondsPerDay == 86400

\* valid["date"] = valid["timestamp"].dt.date
WithDate(row) ==
  [date |-> IF row.timestamp = NaN THEN NaN
            ELSE Num(row.timestamp.utc \div SecondsPerDay)] @@ row

\* sum() of a column: the empty cells are skipped.
RECURSIVE SumCells(_)
SumCells(cells) ==
  IF cells = <<>> THEN 0
  ELSE (IF Head(cells) = NaN THEN 0 ELSE Head(cells).num) + SumCells(Tail(cells))

\* The rows a groupby over `keys` puts into a group: dropna=True leaves out
\* the rows with an empty cell in a key column.
Grouped(rows, keys) ==
  SelectSeq(rows, LAMBDA r : \A c \in keys : r[c] # NaN)

\* The key cells of a row.
GroupOf(row, keys) == [c \in keys |-> row[c]]

\* The cells of `col`, made numbers, in the rows of the group g.
CellsOf(rows, keys, g, col) ==
  LET members == SelectSeq(rows, LAMBDA r : GroupOf(r, keys) = g)
  IN  [i \in 1..Len(members) |-> ToNumeric(members[i][col])]

MovementKeys ==
  {"date", "product_id", "product_name", "warehouse_id", "movement_type"}

\* valid.groupby([...]).agg(total_quantity, total_cost, movement_count)
MovementSummary(valid, at) ==
  LET rows == Grouped(valid, MovementKeys)
  IN  {[total_quantity |-> Num(SumCells(CellsOf(rows, MovementKeys, g, "quantity"))),
        total_cost |-> Num(SumCells(CellsOf(rows, MovementKeys, g, "unit_cost"))),
        movement_count |-> Len(SelectSeq(rows, LAMBDA r :
                                GroupOf(r, MovementKeys) = g /\ r.movement_id # NaN)),
        generated_at |-> at] @@ g :
       g \in {GroupOf(rows[i], MovementKeys) : i \in 1..Len(rows)}}

PivotIndex == {"date", "product_id", "product_name", "warehouse_id"}

\* pivot["inbound"] - pivot["outbound"]
NetOf(row) == Num(row.inbound.num - row.outbound.num)

\* valid.pivot_table(index=[...], columns="movement_type", values="quantity",
\* aggfunc="sum", fill_value=0): one row per index group, one column per
\* movement type that occurs, the sum of the group's quantities of the type,
\* 0 where the group has none. Then the columns that never occurred are added
\* as 0, and net_position and generated_at.
NetPosition(valid, at) ==
  LET rows == Grouped(valid, PivotIndex \cup {"movement_type"})
      columns == {rows[i].movement_type.str : i \in 1..Len(rows)}
      Cell(g, type) ==
        LET qty == CellsOf(SelectSeq(rows, LAMBDA r : r.movement_type.str = type),
                           PivotIndex, g, "quantity")
        IN  IF qty = <<>> THEN Num(0) ELSE Num(SumCells(qty))
      Pivot(g) ==
        (g @@ [c \in columns |-> Cell(g, c)])
          @@ [c \in VALID_MOVEMENT_TYPES |-> Num(0)]
  IN  {[net_position |-> NetOf(Pivot(g)), generated_at |-> at] @@ Pivot(g) :
         g \in {GroupOf(rows[i], PivotIndex) : i \in 1..Len(rows)}}

(* ------------------------------------------------------------------------ *)
(* _build_inventory_summary called on the cleaned inventory it reads back   *)
(* ------------------------------------------------------------------------ *)

\* A raw inventory row with the columns the generator writes. The raw file is
\* any CSV with these columns: the product name, which no rule checks, may be
\* an empty cell.
MovementRow(type, qty, warehouse, ts, name) ==
  [InventoryRow(NaN, type, Num(qty)) EXCEPT !.warehouse_id = Str(warehouse),
                                            !.timestamp = Iso(ts)]
    @@ [product_name |-> name, unit_cost |-> Num(100)]

\* The quantity each movement type has in the inputs; the three differ, so
\* that a sum under the wrong column shows.
QtyOf(type) ==
  CASE type = "inbound" -> 50
    [] type = "outbound" -> 20
    [] type = "adjustment" -> 5

MovementRows ==
  {MovementRow(type, QtyOf(type), wh, ts, Str("Widget")) :
     type \in VALID_MOVEMENT_TYPES, wh \in {"WH-1", "WH-2"},
     ts \in {1, SecondsPerDay + 1}}
    \cup {MovementRow(type, QtyOf(type), "WH-1", 1, NaN) :
            type \in VALID_MOVEMENT_TYPES}
    \cup {MovementRow("TRANSFER", 50, "WH-1", 1, Str("Widget")),
          MovementRow("inbound", 0, "WH-1", 1, Str("Widget"))}

\* The silver frame of the raw rows: movement ids that all differ, cleaned by
\* _process_inventory, written as one partition and read back.
SilverOf(rows) ==
  PdConcat(<<ProcessInventory(PdConcat(
     <<[i \in 1..Len(rows) |-> [rows[i] EXCEPT !.movement_id = Num(i)]]>>))>>)

InitBuild ==
  /\ now = 0
  /\ bronze = [d \in DomainSet |-> <<>>]
  /\ stateFile = [d \in DomainSet |-> MissingFile]
  /\ silver = [d \in DomainSet |-> <<>>]
  /\ gold = [t \in TableNames |-> <<>>]
  /\ pc = "idle"
  /\ di = 1
  /\ files = <<>>
  /\ cleaned = <<>>
  /\ processed = {}
  /\ gpc = "idle"
  /\ gi = 1
  /\ gdf = [d \in DomainSet |-> <<>>]
  /\ other = NoRun
  /\ hist = HistInit
  /\ \E n \in 0..MaxRows : \E rows \in [1..n -> MovementRows] :
       args = [fn |-> "_build_inventory_summary", df |-> SilverOf(rows)]
  /\ ret = NoVal

\* _build_inventory_summary(df): nothing when the frame or its valid part is
\* empty; otherwise the movement summary and the net position are saved, each
\* under the second of its own clock reading. The function returns None.
CallBuildInventorySummary ==
  /\ args # NoVal /\ ret = NoVal
  /\ args.fn = "_build_inventory_summary"
  /\ LET valid == ValidRows(args.df)
         dated == [i \in 1..Len(valid) |->
                     [WithDate(valid[i]) EXCEPT !.quantity = ToNumeric(@)]]
     IN  IF args.df = <<>> \/ valid = <<>>
         THEN UNCHANGED <<now, gold>>
         ELSE \E t1 \in UtcNow : \E t2 \in {t \in {t1, t1 + 1} : t <= MaxTime} :
                /\ now' = t2
                /\ gold' = [gold EXCEPT
                     !["inventory_movement_summary"] =
                        WriteFile(@, t1, MovementSummary(dated, t1)),
                     !["inventory_net_position"] =
                        WriteFile(@, t2, NetPosition(dated, t2))]
  /\ ret' = <<"None">>
  /\ UNCHANGED <<bronze, stateFile, silver, cleanVars, goldVars, args, hist>>

NextBuild == CallBuildInventorySummary

SpecBuild == InitBuild /\ [][NextBuild]_vars

\* The rows of the net-position snapshots written so far.
NetPositionRows ==
  UNION {gold["inventory_net_position"][t] :
           t \in DOMAIN gold["inventory_net_position"]}

\* The valid movements the builder was given, each with its day.
ValidMovements ==
  LET valid == ValidRows(args.df)
  IN  [i \in 1..Len(valid) |-> WithDate(valid[i])]

\* The valid movements of the (date, product, warehouse) group of m.
SameGroup(m) ==
  SelectSeq(ValidMovements, LAMBDA r :
    /\ r.date = m.date
    /\ r.product_id = m.product_id
    /\ r.warehouse_id = m.warehouse_id)

\* The summed quantity of one movement type among the movements.
TotalOf(movements, type) ==
  LET of == SelectSeq(movements, LAMBDA r : r.movement_type = Str(type))
  IN  SumCells([i \in 1..Len(of) |-> of[i].quantity])

\* C17: once _build_inventory_summary has returned, every (date, product,
\* warehouse) group of valid movements has one net-position row, whose
\* inbound, outbound and adjustment are the group's summed quantities of
\* that type (0 when the group has none) and whose net_position is inbound
\* minus outbound, the adjustments left out.
C17_NetPositionPerGroup ==
  (args # NoVal /\ args.fn = "_build_inventory_summary" /\ ret # NoVal) =>
    \A i \in 1..Len(ValidMovements) :
      LET m == ValidMovements[i]
          rows == {s \in NetPositionRows :
                     /\ s.date = m.date
                     /\ s.product_id = m.product_id
                     /\ s.warehouse_id = m.warehouse_id}
      IN  /\ Cardinality(rows) = 1
          /\ \A s \in rows :
               /\ s.inbound = Num(TotalOf(SameGroup(m), "inbound"))
               /\ s.outbound = Num(TotalOf(SameGroup(m), "outbound"))
               /\ s.adjustment = Num(TotalOf(SameGroup(m), "adjustment"))
               /\ s.net_position = Num(TotalOf(SameGroup(m), "inbound")
                                       - TotalOf(SameGroup(m), "outbound"))

\* C18: as long as no run has failed, every snapshot an aggregation run
\* wrote is the rollup of exactly the valid rows of all the cleaned
\* partitions written for its domain up to then: the invalid rows are not
\* counted and no valid row of any partition is left out.
C18_SnapshotOfEveryValidRow ==
  NoFailureSoFar =>
    \A s \in hist.snaps :
      s.rows = Rollup(ValidRows(Concat(s.partitions)), s.at)

\* The frame is empty or none of its rows is valid.
NoValidRow(df) == \A i \in 1..Len(df) : ~df[i].is_valid

\* C19: the step of silver_to_gold.run for a table whose domain has no
\* cleaned data or no valid row writes nothing to gold; the step for a table
\* whose domain has a valid row writes that table's snapshot; and either way,
\* unless the run is killed, it goes on to the next table, or returns after
\* the last one.
C19_EmptyDomainSkipped ==
  [][(gpc = "build" /\ <<gpc, gi>>' # <<gpc, gi>> /\ hist'.goldStatus # "failed") =>
       LET t == GoldTables[gi]
       IN  /\ NoValidRow(gdf[t.domain]) =>
                (gold' = gold /\ hist'.goldParts = hist.goldParts)
           /\ ~NoValidRow(gdf[t.domain]) =>
                \E at \in DOMAIN gold'[t.name] : <<t.name, at>> \in hist'.goldParts
           /\ IF gi < Len(GoldTables)
              THEN gpc' = "build" /\ gi' = gi + 1 /\ gdf' = gdf
              ELSE gpc' = "idle" /\ hist'.goldStatus = "ok"]_vars

\* An aggregation run in progress has skipped the tables of a domain whose
\* cleaned rows are all invalid, and after them has written a table of
\* another domain.
C19_Witness ==
  /\ gpc = "build"
  /\ \E j \in 1..(gi - 1) : \E k \in (j + 1)..(gi - 1) :
       /\ GoldTables[j].domain # GoldTables[k].domain
       /\ gdf[GoldTables[j].domain] # <<>>
       /\ NoValidRow(gdf[GoldTables[j].domain])
       /\ ~\E at \in 0..MaxTime : <<GoldTables[j].name, at>> \in hist.goldParts
       /\ \E at \in 0..MaxTime : <<GoldTables[k].name, at>> \in hist.goldParts

\* silver_to_gold.run alone over a lake that one cleaning run has filled.
NextGold == StartGold \/ BuildTable \/ GoldFails

SpecGold == InitSeeded /\ [][NextGold]_vars

(* ------------------------------------------------------------------------ *)
(* Raw files that arrive while their domain is being cleaned                *)
(* ------------------------------------------------------------------------ *)
\* save_to_bronze(d, source_file) for the domain of the loop body in progress,
\* anywhere between the return of get_unprocessed_bronze_files and the return
\* of mark_bronze_files_processed.
SaveToBronzeDuringRun ==
  /\ TotalFiles < MaxFiles
  /\ pc \in {"read", "save", "mark", "dump"}
  /\ LET d == CurDomain
     IN  \E c \in Contents(Len(bronze[d]) + 1) :
           /\ bronze' = [bronze EXCEPT ![d] = Append(@, c)]
           /\ hist' = [hist EXCEPT !.contrib[d] = Append(@, 0),
                                   !.late[d] = @ \cup {Len(bronze[d]) + 1}]
  /\ UNCHANGED <<now, stateFile, silver, gold, cleanVars, goldVars, callVars>>

\* The generator DAG and the cleaning stage, the generator at any point of
\* the loop body.
NextArrivals == NextCleaning \/ SaveToBronzeDuringRun

SpecArrivals == Init /\ [][NextArrivals]_vars

\* C21: a raw file that arrived between a run's listing of its domain and
\* the end of that run's ledger update is not put in the ledger by that run
\* (neither in the set being dumped nor in the state file), and the first
\* listing after its arrival returns it; and every file in the ledger, or in
\* the set being dumped, was returned by some listing.
C21_LateArrivalLeftForNextRun ==
  \A d \in DomainSet :
    /\ \A f \in FilesOf(d) :
         /\ (Readable(d) /\ InLedger(d, f)) => f \in hist.listed[d]
         /\ BronzePath(d, f) \in processed => f \in hist.listed[d]
    /\ \A f \in hist.late[d] :
         IF f <= hist.seen[d]
         THEN f \in hist.listed[d]
         ELSE /\ f \notin hist.listed[d]
              /\ BronzePath(d, f) \notin processed
              /\ Readable(d) =>
                   /\ ~InLedger(d, f)
                   /\ f \in Range(GetUnprocessedBronzeFiles(d))

\* A file arrived while its domain was being cleaned; that run committed
\* another file of the domain and left this one out, and the next run has
\* listed the domain and has the late file in its list.
C21_Witness ==
  /\ hist.cleanRuns = 2
  /\ pc = "read"
  /\ \E f \in hist.late[CurDomain] :
       /\ f \in Range(files)
       /\ ~InLedger(CurDomain, f)
       /\ \E g \in FilesOf(CurDomain) : g # f /\ InLedger(CurDomain, g)

====
